---- MODULE Spec2Model ----
(***************************************************************************)
(* The listings app of alx_travel_app: the relational store declared in    *)
(* listings/models.py (Listing, Booking, Review, and the auth User), the   *)
(* `seed` management command of listings/management/commands/seed.py, and  *)
(* the derived counters of listings/serializers.py.                        *)
(*                                                                         *)
(* Money is kept in hundredths (Decimal('150.00') is 15000), dates are day *)
(* numbers, a UUID primary key is a number no row of the table carries.     *)
(* The free-text fields that no operation reads (Review.comment, the long  *)
(* descriptions) and the auto timestamps are left out of the records.      *)
(***************************************************************************)
EXTENDS Integers, Sequences, FiniteSets

VARIABLES
    users,       \* the User table: records [username, email, password]
    listings,    \* the Listing table: records [id, title, price_per_night]
    bookings,    \* the Booking table
    reviews,     \* the Review table
    now,         \* the calendar day timezone.now().date() returns
    pc,          \* the statement the running seed command is at, "idle" if none
    clear,       \* options['clear'] of the running command
    i,           \* index of the loop the command is in (1-based)
    l_users,     \* create_users' list `users` (the usernames fetched or created)
    l_listings,  \* create_listings' list `listings` (the in-memory Listing objects)
    today,       \* create_bookings' local `today`
    runs,        \* number of seed commands started
    ops,         \* number of operations applied to the store outside the command
    fails,       \* number of injected persistence failures
    pre,         \* history: the store when the running command started
    last,        \* history: how the last two commands ended, and the store's size then
    chain,       \* history: complete runs without --clear in a row since the empty store
    ledger       \* history: per Listing id, bookings/reviews created minus deleted

vars == <<users, listings, bookings, reviews, now, pc, clear, i, l_users,
          l_listings, today, runs, ops, fails, pre, last, chain, ledger>>

locals == <<clear, i, l_users, l_listings, today>>

-----------------------------------------------------------------------------
(* Bounds of the exploration: at most MaxRuns commands are started, and at  *)
(* most MaxEvents things happen besides them (an operation on the store     *)
(* between two commands, or a persistence call that raises).                *)
MaxRuns == 2
MaxEvents == 1
Days == {0, 1}
Prices == {15000, 20000}
Ratings == {0, 3, 6}

-----------------------------------------------------------------------------
(* The literal seed data *)
DEFAULT_PASSWORD == "password123"

users_data ==
    << [username |-> "john_doe", email |-> "john@example.com"],
       [username |-> "jane_smith", email |-> "jane@example.com"],
       [username |-> "bob_wilson", email |-> "bob@example.com"] >>

listings_data ==
    << [title |-> "Cozy Beachfront Villa", price_per_night |-> 15000],
       [title |-> "Mountain Cabin Retreat", price_per_night |-> 8550],
       [title |-> "Downtown Luxury Apartment", price_per_night |-> 20000],
       [title |-> "Rustic Countryside Farmhouse", price_per_night |-> 12075],
       [title |-> "Modern Studio Loft", price_per_night |-> 9500] >>

\* listing and user are positions in the lists built by the two earlier steps
\* (listings[0] is position 1); start and end are day offsets from today.
bookings_data ==
    << [listing |-> 1, user |-> 1, start |-> 5, end |-> 8, status |-> "confirmed"],
       [listing |-> 2, user |-> 2, start |-> 10, end |-> 12, status |-> "pending"],
       [listing |-> 3, user |-> 1, start |-> 15, end |-> 18, status |-> "confirmed"],
       [listing |-> 1, user |-> 3, start |-> 20, end |-> 25, status |-> "pending"] >>

reviews_data ==
    << [listing |-> 1, rating |-> 5],
       [listing |-> 1, rating |-> 4],
       [listing |-> 2, rating |-> 5],
       [listing |-> 3, rating |-> 4],
       [listing |-> 4, rating |-> 5] >>

\* Rows other code can put in the User table: one unrelated account and one
\* that already owns a seeded username.
ExtUsers ==
    { [username |-> "alice", email |-> "alice@example.org", password |-> "hash:alice"],
      [username |-> "john_doe", email |-> "jd@example.org", password |-> "hash:jd"] }

ExtTitles == {"Cozy Beachfront Villa"}

-----------------------------------------------------------------------------
(* The schema's rules *)

\* set_password: the stored value is a hash of the raw password, never the raw one
make_password(raw) == "hash:" \o raw

\* Review.rating's validators: MinValueValidator(1), MaxValueValidator(5)
rating_valid(r) == r >= 1 /\ r <= 5

\* variant: on_delete=DO_NOTHING, the referencing Bookings are left behind
BookingsAfterListingDelete_keep(bs, gone) == bs

\* on_delete=CASCADE of Booking.listing: the bookings left when Listings `gone` go
BookingsAfterListingDelete(bs, gone) == {b \in bs : b.listing \notin gone}

\* on_delete=CASCADE of Booking.user
BookingsAfterUserDelete(bs, gone) == {b \in bs : b.user \notin gone}

\* on_delete=CASCADE of Review.listing
ReviewsAfterListingDelete(rs, gone) == {r \in rs : r.listing \notin gone}

Ids(ls) == {l.id : l \in ls}

\* default=uuid.uuid4: a primary key that no row of the table carries
uuid4(used) == CHOOSE n \in 1..(Cardinality(used) + 1) : n \notin used /\ \A m \in 1..(n - 1) : m \in used

-----------------------------------------------------------------------------
(* listings/serializers.py *)

\* variant: Booking.objects.count(), the count of all Bookings
get_booking_count_all(obj) == Cardinality(bookings)

\* obj.bookings.count(): the related manager filters Booking on listing = obj
get_booking_count(obj) == Cardinality({b \in bookings : b.listing = obj.id})

\* obj.reviews.count()
get_review_count(obj) == Cardinality({r \in reviews : r.listing = obj.id})

ListingSerializer(obj) ==
    [id |-> obj.id, title |-> obj.title, price_per_night |-> obj.price_per_night,
     booking_count |-> get_booking_count(obj), review_count |-> get_review_count(obj)]

-----------------------------------------------------------------------------
(* History bookkeeping *)

NoPre == [users |-> {}, listings |-> {}, bookings |-> {}, reviews |-> {}]
NoRun == [kind |-> "none", clear |-> FALSE, bookings |-> 0, reviews |-> 0]
NoLast == [run |-> NoRun, prev |-> NoRun]

NoLedger == [id \in {} |-> [b |-> 0, r |-> 0]]

Snapshot == [users |-> users, listings |-> listings, bookings |-> bookings,
             reviews |-> reviews]

\* the ledger after bookings `nb` / reviews `nr` were added and `db` / `dr` removed,
\* restricted to the Listings `ls` that remain
Count(S, id) == Cardinality({x \in S : x.listing = id})

LedgerAfter(ls, nb, db, nr, dr) ==
    [id \in Ids(ls) |->
        IF id \in DOMAIN ledger
        THEN [b |-> ledger[id].b + Count(nb, id) - Count(db, id),
              r |-> ledger[id].r + Count(nr, id) - Count(dr, id)]
        ELSE [b |-> Count(nb, id), r |-> Count(nr, id)]]

-----------------------------------------------------------------------------
Init ==
    /\ users = {}
    /\ listings = {}
    /\ bookings = {}
    /\ reviews = {}
    /\ now = 0
    /\ pc = "idle"
    /\ clear = FALSE
    /\ i = 0
    /\ l_users = <<>>
    /\ l_listings = <<>>
    /\ today = 0
    /\ runs = 0
    /\ ops = 0
    /\ fails = 0
    /\ pre = NoPre
    /\ last = NoLast
    /\ chain = 0
    /\ ledger = NoLedger

-----------------------------------------------------------------------------
(* The seed command, one persistence call per step *)

\* the command returns or is aborted: its locals die with it
EndRun(kind) ==
    /\ pc' = "idle"
    /\ clear' = FALSE
    /\ i' = 0
    /\ l_users' = <<>>
    /\ l_listings' = <<>>
    /\ today' = 0
    /\ pre' = NoPre
    /\ last' = [run |-> [kind |-> kind, clear |-> clear,
                          bookings |-> Cardinality(bookings'),
                          reviews |-> Cardinality(reviews')],
                prev |-> last.run]
    /\ chain' = IF kind = "complete" /\ ~clear /\ chain >= 0 THEN chain + 1 ELSE -1

\* python manage.py seed [--clear]
handle(c) ==
    /\ pc = "idle"
    /\ runs < MaxRuns
    /\ runs' = runs + 1
    /\ clear' = c
    /\ pc' = IF c THEN "clear_reviews" ELSE "create_users"
    /\ i' = 1
    /\ pre' = Snapshot
    /\ UNCHANGED <<users, listings, bookings, reviews, now, l_users,
                   l_listings, today, ops, fails, last, chain, ledger>>

\* Review.objects.all().delete()
clear_reviews ==
    /\ pc = "clear_reviews"
    /\ reviews' = {}
    /\ ledger' = LedgerAfter(listings, {}, {}, {}, reviews)
    /\ pc' = "clear_bookings"
    /\ UNCHANGED <<users, listings, bookings, now, locals, runs, ops, fails,
                   pre, last, chain>>

\* Booking.objects.all().delete()
clear_bookings ==
    /\ pc = "clear_bookings"
    /\ bookings' = {}
    /\ ledger' = LedgerAfter(listings, {}, bookings, {}, {})
    /\ pc' = "clear_listings"
    /\ UNCHANGED <<users, listings, reviews, now, locals, runs, ops, fails,
                   pre, last, chain>>

\* variant: the clear step also empties the User table
clear_listings_and_users ==
    /\ pc = "clear_listings"
    /\ listings' = {}
    /\ users' = {}
    /\ bookings' = BookingsAfterListingDelete(bookings, Ids(listings))
    /\ reviews' = ReviewsAfterListingDelete(reviews, Ids(listings))
    /\ ledger' = NoLedger
    /\ pc' = "create_users"
    /\ UNCHANGED <<now, locals, runs, ops, fails, pre, last, chain>>

\* Listing.objects.all().delete(), which cascades to what still references them
clear_listings ==
    /\ pc = "clear_listings"
    /\ listings' = {}
    /\ bookings' = BookingsAfterListingDelete(bookings, Ids(listings))
    /\ reviews' = ReviewsAfterListingDelete(reviews, Ids(listings))
    /\ ledger' = NoLedger
    /\ pc' = "create_users"
    /\ UNCHANGED <<users, now, locals, runs, ops, fails, pre, last, chain>>

\* variant: get_or_create(username=..., email=...), the email is part of the lookup
UserMatches_withEmail(d) == {u \in users : u.username = d.username /\ u.email = d.email}

\* User.objects.get_or_create(username=..., defaults={'email': ...}): the rows the
\* lookup matches
UserMatches(d) == {u \in users : u.username = d.username}

\* the row get_or_create inserts: the password is not among the defaults
NewUser(d) == [username |-> d.username, email |-> d.email, password |-> ""]

NextUser ==
    IF i < Len(users_data)
    THEN /\ pc' = "create_users"
         /\ i' = i + 1
    ELSE /\ pc' = "create_listings"
         /\ i' = 1

\* one iteration of create_users' loop, up to the get_or_create call
create_users ==
    /\ pc = "create_users"
    /\ LET d == users_data[i] IN
       IF UserMatches(d) = {}
       THEN /\ users' = users \cup {NewUser(d)}
            /\ pc' = "set_password"
            /\ UNCHANGED <<i, l_users>>
       ELSE /\ l_users' = Append(l_users, d.username)
            /\ NextUser
            /\ UNCHANGED users
    /\ UNCHANGED <<listings, bookings, reviews, now, clear, l_listings, today,
                   runs, ops, fails, pre, last, chain, ledger>>

\* `if created:` user.set_password('password123'); user.save()
set_password ==
    /\ pc = "set_password"
    /\ LET d == users_data[i] IN
       /\ users' = (users \ UserMatches(d))
                   \cup {[NewUser(d) EXCEPT !.password = make_password(DEFAULT_PASSWORD)]}
       /\ l_users' = Append(l_users, d.username)
    /\ NextUser
    /\ UNCHANGED <<listings, bookings, reviews, now, clear, l_listings, today,
                   runs, ops, fails, pre, last, chain, ledger>>

\* variant: get_or_create(**listing_data), every field is part of the lookup
ListingMatches_allfields(d) ==
    {l \in listings : l.title = d.title /\ l.price_per_night = d.price_per_night}

\* variant: Listing.objects.create(**listing_data), no lookup at all
ListingMatches_create(d) == {}

\* Listing.objects.get_or_create(title=..., defaults=listing_data): the rows the
\* lookup matches
ListingMatches(d) == {l \in listings : l.title = d.title}

NewListing(d) == [id |-> uuid4(Ids(listings)), title |-> d.title, price_per_night |-> d.price_per_night]

\* leaving create_listings enters create_bookings, which reads the clock first
NextListing ==
    IF i < Len(listings_data)
    THEN /\ pc' = "create_listings"
         /\ i' = i + 1
         /\ UNCHANGED <<now, today>>
    ELSE /\ pc' = "create_bookings"
         /\ i' = 1
         /\ \E d \in Days : d >= now /\ now' = d /\ today' = d

\* one iteration of create_listings' loop; get() raises MultipleObjectsReturned
\* when several rows carry the title, and nothing catches it
create_listings ==
    /\ pc = "create_listings"
    /\ UNCHANGED <<users, bookings, reviews, l_users, runs, ops, fails>>
    /\ LET d == listings_data[i]
           found == ListingMatches(d) IN
       IF found = {}
       THEN /\ listings' = listings \cup {NewListing(d)}
            /\ ledger' = LedgerAfter(listings', {}, {}, {}, {})
            /\ l_listings' = Append(l_listings, NewListing(d))
            /\ NextListing
            /\ UNCHANGED <<clear, pre, last, chain>>
       ELSE IF Cardinality(found) = 1
       THEN /\ l_listings' = Append(l_listings, CHOOSE l \in found : TRUE)
            /\ NextListing
            /\ UNCHANGED <<listings, ledger, clear, pre, last, chain>>
       ELSE /\ UNCHANGED <<listings, ledger, now>>
            /\ EndRun("aborted")

\* variant: both the first and the last day are charged
BookingTotal_inclusive(price_per_night, start_date, end_date) ==
    price_per_night * (end_date - start_date + 1)

\* nights = (end_date - start_date).days; total_price = price_per_night * nights
BookingTotal(price_per_night, start_date, end_date) ==
    price_per_night * (end_date - start_date)

\* variant: the rate is read from the literal seed data, not from the Listing
NewBooking_seedprice(d) ==
    [booking_id |-> uuid4({b.booking_id : b \in bookings}),
     listing |-> l_listings[d.listing].id,
     user |-> l_users[d.user],
     start_date |-> today + d.start,
     end_date |-> today + d.end,
     total_price |-> listings_data[d.listing].price_per_night * (d.end - d.start),
     status |-> d.status]

NewBooking(d) ==
    [booking_id |-> uuid4({b.booking_id : b \in bookings}),
     listing |-> l_listings[d.listing].id,
     user |-> l_users[d.user],
     start_date |-> today + d.start,
     end_date |-> today + d.end,
     total_price |-> BookingTotal(l_listings[d.listing].price_per_night,
                                  today + d.start, today + d.end),
     status |-> d.status]

\* one iteration of create_bookings' loop: Booking.objects.create(**booking_data)
create_bookings ==
    /\ pc = "create_bookings"
    /\ LET b == NewBooking(bookings_data[i]) IN
       /\ bookings' = bookings \cup {b}
       /\ ledger' = LedgerAfter(listings, {b}, {}, {}, {})
    /\ IF i < Len(bookings_data)
       THEN /\ pc' = "create_bookings"
            /\ i' = i + 1
       ELSE /\ pc' = "create_reviews"
            /\ i' = 1
    /\ UNCHANGED <<users, listings, reviews, now, clear, l_users, l_listings, today,
                   runs, ops, fails, pre, last, chain>>

NewReview(d) ==
    [review_id |-> uuid4({x.review_id : x \in reviews}), listing |-> l_listings[d.listing].id, rating |-> d.rating]

\* one iteration of create_reviews' loop: Review.objects.create(**review_data);
\* after the last one handle() returns
create_reviews ==
    /\ pc = "create_reviews"
    /\ UNCHANGED <<users, listings, bookings, now, runs, ops, fails>>
    /\ LET r == NewReview(reviews_data[i]) IN
       /\ reviews' = reviews \cup {r}
       /\ ledger' = LedgerAfter(listings, {}, {}, {r}, {})
    /\ IF i < Len(reviews_data)
       THEN /\ pc' = "create_reviews"
            /\ i' = i + 1
            /\ UNCHANGED <<clear, l_users, l_listings, today, pre, last, chain>>
       ELSE EndRun("complete")

\* variant: handle() runs inside transaction.atomic, a failure rolls the run back
Fail_rollback ==
    /\ pc # "idle"
    /\ ops + fails < MaxEvents
    /\ fails' = fails + 1
    /\ users' = pre.users
    /\ listings' = pre.listings
    /\ bookings' = pre.bookings
    /\ reviews' = pre.reviews
    /\ ledger' = [id \in Ids(pre.listings) |->
                      [b |-> Count(pre.bookings, id), r |-> Count(pre.reviews, id)]]
    /\ UNCHANGED <<now, runs, ops>>
    /\ EndRun("aborted")

\* a persistence call raises (connection lost, constraint violated): handle() has
\* no try/except and no transaction.atomic, so the command dies where it stands
Fail ==
    /\ pc # "idle"
    /\ ops + fails < MaxEvents
    /\ fails' = fails + 1
    /\ UNCHANGED <<users, listings, bookings, reviews, now, runs, ops, ledger>>
    /\ EndRun("aborted")

-----------------------------------------------------------------------------
(* What else the schema lets happen to the store between two commands *)

Outside ==
    /\ pc = "idle"
    /\ ops + fails < MaxEvents
    /\ ops' = ops + 1
    /\ last' = NoLast
    /\ chain' = -1
    /\ UNCHANGED <<pc, locals, now, runs, fails, pre>>

\* a Listing row is saved with another price_per_night
ListingUpdate(l, p) ==
    /\ Outside
    /\ l \in listings
    /\ p # l.price_per_night
    /\ listings' = (listings \ {l}) \cup {[l EXCEPT !.price_per_night = p]}
    /\ UNCHANGED <<users, bookings, reviews, ledger>>

\* a Listing row is inserted: nothing in the schema makes title unique
ListingCreate(t, p) ==
    /\ Outside
    /\ listings' = listings \cup {[id |-> uuid4(Ids(listings)), title |-> t, price_per_night |-> p]}
    /\ ledger' = LedgerAfter(listings', {}, {}, {}, {})
    /\ UNCHANGED <<users, bookings, reviews>>

\* a Listing row is deleted
ListingDelete(l) ==
    /\ Outside
    /\ l \in listings
    /\ listings' = listings \ {l}
    /\ bookings' = BookingsAfterListingDelete(bookings, {l.id})
    /\ reviews' = ReviewsAfterListingDelete(reviews, {l.id})
    /\ ledger' = LedgerAfter(listings', {}, {}, {}, {})
    /\ UNCHANGED <<users>>

\* a User row is inserted: username is unique
UserCreate(u) ==
    /\ Outside
    /\ \A v \in users : v.username # u.username
    /\ users' = users \cup {u}
    /\ UNCHANGED <<listings, bookings, reviews, ledger>>

\* a User row is deleted
UserDelete(u) ==
    /\ Outside
    /\ u \in users
    /\ users' = users \ {u}
    /\ bookings' = BookingsAfterUserDelete(bookings, {u.username})
    /\ ledger' = LedgerAfter(listings, {}, bookings \ bookings', {}, {})
    /\ UNCHANGED <<listings, reviews>>

\* a Booking row is deleted
BookingDelete(b) ==
    /\ Outside
    /\ b \in bookings
    /\ bookings' = bookings \ {b}
    /\ ledger' = LedgerAfter(listings, {}, {b}, {}, {})
    /\ UNCHANGED <<users, listings, reviews>>

\* a Review row is deleted
ReviewDelete(r) ==
    /\ Outside
    /\ r \in reviews
    /\ reviews' = reviews \ {r}
    /\ ledger' = LedgerAfter(listings, {}, {}, {}, {r})
    /\ UNCHANGED <<users, listings, bookings>>

\* Review.objects.create(listing=l, rating=r, ...): Model.save() runs no validator
ReviewCreate(l, r) ==
    /\ Outside
    /\ l \in listings
    /\ LET new == [review_id |-> uuid4({x.review_id : x \in reviews}), listing |-> l.id, rating |-> r] IN
       /\ reviews' = reviews \cup {new}
       /\ ledger' = LedgerAfter(listings, {}, {}, {new}, {})
    /\ UNCHANGED <<users, listings, bookings>>

\* ReviewSerializer(data=...).is_valid() and save(): the ModelSerializer runs the
\* field's validators before it saves
ReviewSerializerCreate(l, r) ==
    /\ Outside
    /\ l \in listings
    /\ IF rating_valid(r)
       THEN LET new == [review_id |-> uuid4({x.review_id : x \in reviews}), listing |-> l.id, rating |-> r] IN
            /\ reviews' = reviews \cup {new}
            /\ ledger' = LedgerAfter(listings, {}, {}, {new}, {})
       ELSE UNCHANGED <<reviews, ledger>>
    /\ UNCHANGED <<users, listings, bookings>>

-----------------------------------------------------------------------------
Next ==
    \/ \E c \in BOOLEAN : handle(c)
    \/ clear_reviews
    \/ clear_bookings
    \/ clear_listings
    \/ create_users
    \/ set_password
    \/ create_listings
    \/ create_bookings
    \/ create_reviews
    \/ Fail
    \/ \E l \in listings, p \in Prices : ListingUpdate(l, p)
    \/ \E t \in ExtTitles, p \in Prices : ListingCreate(t, p)
    \/ \E l \in listings : ListingDelete(l)
    \/ \E u \in ExtUsers : UserCreate(u)
    \/ \E u \in users : UserDelete(u)
    \/ \E b \in bookings : BookingDelete(b)
    \/ \E r \in reviews : ReviewDelete(r)
    \/ \E l \in listings, r \in Ratings : ReviewCreate(l, r)
    \/ \E l \in listings, r \in Ratings : ReviewSerializerCreate(l, r)

Spec == Init /\ [][Next]_vars

-----------------------------------------------------------------------------
(* Vocabulary of the properties *)

SeededNames == {users_data[k].username : k \in 1..Len(users_data)}
SeededTitles == {listings_data[k].title : k \in 1..Len(listings_data)}
VILLA == "Cozy Beachfront Villa"

Titled(ls, t) == {l \in ls : l.title = t}
Named(us, n) == {u \in us : u.username = n}
Nights(b) == b.end_date - b.start_date

Running == pc # "idle"
SeedingNoClear == pc \in {"create_users", "set_password", "create_listings",
                          "create_bookings", "create_reviews"} /\ ~clear

-----------------------------------------------------------------------------
\* C1: every Booking that create_bookings inserts carries total_price = the
\* price_per_night stored for its Listing at that moment times the whole days
\* between start_date and end_date; and no step (a price change, a further seed
\* run) alters a Booking that already exists: it stays as it is or is deleted.
C1_TotalPriceAtCreation ==
    [][ /\ pc = "create_bookings" =>
            \A b \in bookings' \ bookings :
                \E l \in listings :
                    /\ l.id = b.listing
                    /\ b.total_price = l.price_per_night * Nights(b)
        /\ \A b \in bookings : \A c \in bookings' :
                c.booking_id = b.booking_id => c = b ]_vars

\* a second run has completed after a price change: an old Booking's total_price
\* no longer matches its Listing's rate, a new one's does
C1_Witness ==
    /\ pc = "idle"
    /\ last.run.kind = "complete"
    /\ runs = 2
    /\ \E l \in listings : \E b, c \in bookings :
          /\ b.listing = l.id /\ c.listing = l.id
          /\ b.total_price # l.price_per_night * Nights(b)
          /\ c.total_price = l.price_per_night * Nights(c)

\* C2: no step of a seed run without --clear modifies or removes a Listing, and
\* once a seeded title has a Listing the number of Listings with that title
\* stays what it is: a re-run never duplicates it.
C2_ListingsIdempotent ==
    [][ SeedingNoClear =>
          /\ listings \subseteq listings'
          /\ \A t \in SeededTitles :
                Titled(listings, t) # {} => Titled(listings', t) = Titled(listings, t) ]_vars

\* a re-run without --clear has gone through create_listings with all five
\* titles already stored
C2_Witness ==
    /\ pc = "create_bookings"
    /\ ~clear
    /\ \A t \in SeededTitles : Cardinality(Titled(pre.listings, t)) = 1
    /\ listings = pre.listings

\* C3: from the empty store, two complete runs without --clear in a row leave 3
\* Users, 5 Listings, 8 Bookings and 10 Reviews (the first leaves 3, 5, 4 and 5),
\* and the second run changes neither the User nor the Listing table.
C3_TwoRuns ==
    /\ [](pc = "idle" /\ chain = 1 =>
            /\ Cardinality(users) = 3 /\ Cardinality(listings) = 5
            /\ Cardinality(bookings) = 4 /\ Cardinality(reviews) = 5)
    /\ [](pc = "idle" /\ chain = 2 =>
            /\ Cardinality(users) = 3 /\ Cardinality(listings) = 5
            /\ Cardinality(bookings) = 8 /\ Cardinality(reviews) = 10)
    /\ [][(chain = 1 /\ Running /\ ~clear) =>
            users' = users /\ listings' = listings]_vars

C3_Witness == pc = "idle" /\ chain = 2 /\ Cardinality(bookings) = 8

\* C4: the clear step deletes the Reviews first, then the Bookings, then the
\* Listings; when it is over none of the three is left, and the User table is
\* throughout what it was when the command started.
C4_ClearStep ==
    /\ pc = "clear_reviews" =>
          /\ users = pre.users /\ listings = pre.listings
          /\ bookings = pre.bookings /\ reviews = pre.reviews
    /\ pc = "clear_bookings" =>
          /\ users = pre.users /\ listings = pre.listings
          /\ bookings = pre.bookings /\ reviews = {}
    /\ pc = "clear_listings" =>
          /\ users = pre.users /\ listings = pre.listings
          /\ bookings = {} /\ reviews = {}
    /\ (clear /\ pc = "create_users" /\ i = 1) =>
          /\ users = pre.users /\ listings = {}
          /\ bookings = {} /\ reviews = {}

\* the clear step has just finished on a store that held rows of every kind
C4_Witness ==
    /\ clear /\ pc = "create_users" /\ i = 1
    /\ pre.users # {} /\ pre.listings # {} /\ pre.bookings # {} /\ pre.reviews # {}

\* C5: every Review in the store has a rating in [1,5] (a Review with any other
\* rating is rejected when it is persisted).
C5_RatingInRange == \A r \in reviews : rating_valid(r.rating)

\* C6: every Booking references a Listing and a User that exist, and every
\* Review references a Listing that exists: deleting a Listing or a User takes
\* the rows that reference it along.
C6_NoDanglingReference ==
    /\ \A b \in bookings :
          /\ b.listing \in Ids(listings)
          /\ Named(users, b.user) # {}
    /\ \A r \in reviews : r.listing \in Ids(listings)

\* a Listing that had Bookings and Reviews was deleted after a complete run
C6_Witness ==
    /\ ops = 1
    /\ Cardinality(listings) = 4
    /\ Titled(listings, VILLA) = {}
    /\ Cardinality(bookings) = 2
    /\ Cardinality(reviews) = 3

\* C7: the step that aborts a run leaves every table as it is (what was written
\* stays, nothing is rolled back) and ends the run; and when the next run is
\* without --clear and completes, there is exactly one User per seeded username
\* and one Listing per seeded title, and the store holds 4 Bookings and 5
\* Reviews more than the aborted run left in it.
C7_AbortThenRerun ==
    /\ [][(Running /\ last' # last /\ last'.run.kind = "aborted") =>
             /\ users' = users /\ listings' = listings
             /\ bookings' = bookings /\ reviews' = reviews
             /\ pc' = "idle"]_vars
    /\ [](( /\ pc = "idle"
            /\ last.run.kind = "complete" /\ ~last.run.clear
            /\ last.prev.kind = "aborted") =>
             /\ \A n \in SeededNames : Cardinality(Named(users, n)) = 1
             /\ \A t \in SeededTitles : Cardinality(Titled(listings, t)) = 1
             /\ Cardinality(bookings) = last.prev.bookings + 4
             /\ Cardinality(reviews) = last.prev.reviews + 5)

\* a run aborted after some Bookings were written, and the next run completed
C7_Witness ==
    /\ pc = "idle"
    /\ last.run.kind = "complete" /\ ~last.run.clear
    /\ last.prev.kind = "aborted"
    /\ last.prev.bookings \in 1..3
    /\ Cardinality(bookings) = last.prev.bookings + 4

\* C8 as stated: the first Booking of every run (the Villa, today+5 to today+8)
\* has total_price 450.00 and status "confirmed".
C8_Always450 ==
    [][(pc = "create_bookings" /\ i = 1) =>
          \A b \in bookings' \ bookings :
              b.total_price = 45000 /\ b.status = "confirmed"]_vars

\* C8 amended: the first Booking of every run is for the stored Listing titled
\* "Cozy Beachfront Villa", runs from today+5 to today+8, has status "confirmed"
\* and total_price 3 times that Listing's stored price_per_night: 450.00
\* whenever the stored rate is 150.00.
C8_VillaBooking ==
    [][(pc = "create_bookings" /\ i = 1) =>
          \A b \in bookings' \ bookings :
              /\ b.status = "confirmed"
              /\ b.start_date = today + 5 /\ b.end_date = today + 8
              /\ \E l \in Titled(listings, VILLA) :
                    /\ b.listing = l.id
                    /\ b.total_price = 3 * l.price_per_night
                    /\ l.price_per_night = 15000 => b.total_price = 45000]_vars

\* the Villa was already stored at 150.00 when the run started, and the run has
\* just booked it for 450.00
C8_Witness ==
    /\ pc = "create_bookings" /\ i = 2
    /\ \E l \in pre.listings : l.title = VILLA /\ l.price_per_night = 15000
    /\ \E b \in bookings \ pre.bookings :
          b.total_price = 45000 /\ b.status = "confirmed"

\* C9: in every state, for every Listing, the serialized booking_count and
\* review_count are the numbers of Bookings and Reviews created for that
\* Listing and not deleted since.
C9_LiveCounts ==
    /\ DOMAIN ledger = Ids(listings)
    /\ \A l \in listings :
          /\ ListingSerializer(l).booking_count = ledger[l.id].b
          /\ ListingSerializer(l).review_count = ledger[l.id].r

\* after a complete run one of the Villa's two Bookings was deleted
C9_Witness ==
    /\ ops = 1
    /\ \E l \in Titled(listings, VILLA) :
          /\ ListingSerializer(l).booking_count = 1
          /\ ListingSerializer(l).review_count = 2

\* C10: when create_users is over there is exactly one User per seeded
\* username: the one that was there when the command started, unchanged, or
\* else a new one with the seed email and the default password; and the Users
\* with other usernames are the ones that were there.
C10_CreateUsers ==
    (pc = "create_listings" /\ i = 1) =>
        /\ \A k \in 1..Len(users_data) :
              LET d == users_data[k]
                  old == Named(pre.users, d.username)
              IN  /\ Cardinality(Named(users, d.username)) = 1
                  /\ old # {} => Named(users, d.username) = old
                  /\ old = {} => Named(users, d.username) =
                        {[username |-> d.username, email |-> d.email,
                          password |-> make_password(DEFAULT_PASSWORD)]}
        /\ {u \in users : u.username \notin SeededNames}
             = {u \in pre.users : u.username \notin SeededNames}

\* create_users has fetched a john_doe registered with another email and
\* created the other two
C10_Witness ==
    /\ pc = "create_listings" /\ i = 1
    /\ \E u \in pre.users : u.username = "john_doe" /\ u.email # "john@example.com"
    /\ Named(pre.users, "jane_smith") = {}
    /\ Cardinality(users) = 3

====
